---------------------------- MODULE Spec2Model ----------------------------
(***************************************************************************)
(* A model of lark's lexer (src/lark/lexer.py): the matcher compiler       *)
(* (build_mres), the ambiguity resolver (_create_unless), Lexer and        *)
(* ContextualLexer construction, LineCounter, and the streaming core       *)
(* (_Lex.lex) as a generator whose positions are the values of pc.         *)
(*                                                                         *)
(* Text is a sequence of one-character strings.  Offsets are 0-based as in *)
(* the source: the character at offset p of s is s[p+1].                   *)
(*                                                                         *)
(* The host regular-expression engine (Python's re) is modelled for the    *)
(* syntax the token pool uses: literal characters, backslash escapes,      *)
(* character sets with negation, the dot, greedy + * ? on one atom,        *)
(* unquantified capture groups, a leading inline flag group and the end    *)
(* anchor $.  Matching is backtracking and greedy, the first alternative   *)
(* of a disjunction that matches wins.                                     *)
(***************************************************************************)
EXTENDS Integers, Sequences, FiniteSets, TLC

-----------------------------------------------------------------------------
(* Bounds of the model *)

\* longest input stream
MaxLen == 3
\* the engine's ceiling on the capture groups of one compiled pattern
\* (100 in the engine the source was written for, scaled down)
MaxGroups == 3
\* longest token list drawn from the whole pool
MaxTokens == 2
\* longest input stream of two sessions that share a Lexer
MaxShared == 2

-----------------------------------------------------------------------------
(* Characters *)

newline_char == "\n"
Alphabet == {"a", "b", newline_char}
AlNum == {"a", "b"}
\* what \s matches, within the alphabet
Whitespace == {newline_char}

Min(a, b) == IF a <= b THEN a ELSE b

\* s[from .. to), 0-based, as Python's slice
Slice(s, from, to) == SubSeq(s, from + 1, to)

\* `sub in s` for Python strings
Contains(s, sub) ==
    \E i \in 0 .. (Len(s) - Len(sub)) : Slice(s, i, i + Len(sub)) = sub

\* s.count(c)
Count(s, c) == Cardinality({i \in 1 .. Len(s) : s[i] = c})

\* s.rindex(c), 0-based; only used when c occurs in s
RIndex(s, c) == (CHOOSE i \in 1 .. Len(s) : s[i] = c /\ \A j \in (i + 1) .. Len(s) : s[j] # c) - 1

RECURSIVE Concat(_)
Concat(ss) == IF ss = <<>> THEN <<>> ELSE Head(ss) \o Concat(Tail(ss))

RECURSIVE SumSeq(_)
SumSeq(ns) == IF ns = <<>> THEN 0 ELSE Head(ns) + SumSeq(Tail(ns))

-----------------------------------------------------------------------------
(* The regular-expression engine: re.compile *)

\* the engine's "no upper bound" width
MAXREPEAT == 65535

Quantifiers == {"+", "*", "?"}

\* index of the first "]" at or after i, 0 when there is none
RECURSIVE SetEnd(_, _)
SetEnd(src, i) ==
    IF i > Len(src) THEN 0
    ELSE IF src[i] = "]" THEN i
    ELSE IF src[i] = "\\" THEN SetEnd(src, i + 2)
    ELSE SetEnd(src, i + 1)

\* the characters named between "[" and "]" (body is src[from..to])
RECURSIVE SetChars(_, _, _)
SetChars(src, from, to) ==
    IF from > to THEN {}
    ELSE IF src[from] = "\\" /\ from < to
         THEN (IF src[from + 1] = "n" THEN {newline_char}
               ELSE IF src[from + 1] = "s" THEN Whitespace
               ELSE {src[from + 1]}) \cup SetChars(src, from + 2, to)
    ELSE {src[from]} \cup SetChars(src, from + 1, to)

\* An item of a compiled pattern: a character test with a repetition, or the
\* end anchor.  dot marks the test whose meaning depends on the DOTALL flag.
Item(set, dot, q) == [set |-> set, dot |-> dot, q |-> q]
EndAnchor == [set |-> {}, dot |-> FALSE, q |-> "$"]

ParseError == [ok |-> FALSE, items |-> <<>>, groups |-> 0]

NoAtom(i) == [ok |-> FALSE, set |-> {}, dot |-> FALSE, next |-> i]

\* the character set that opens at i: its test and the index after its "]"
SetAtom(src, i, neg, e) ==
    IF e = 0 THEN NoAtom(i)
    ELSE [ok |-> TRUE,
          set |-> IF neg THEN Alphabet \ SetChars(src, IF neg THEN i + 2 ELSE i + 1, e - 1)
                  ELSE SetChars(src, i + 1, e - 1),
          dot |-> FALSE, next |-> e + 1]

\* the atom at i, not a group, quantifier or anchor: [ok, set, dot, next]
AtomAt(src, i) ==
    IF src[i] = "[" THEN
        IF i < Len(src) /\ src[i + 1] = "^"
        THEN SetAtom(src, i, TRUE, SetEnd(src, i + 2))
        ELSE SetAtom(src, i, FALSE, SetEnd(src, i + 1))
    ELSE IF src[i] = "\\" THEN
        IF i = Len(src) THEN NoAtom(i)
        ELSE [ok |-> TRUE,
              set |-> IF src[i + 1] = "n" THEN {newline_char}
                      ELSE IF src[i + 1] = "s" THEN Whitespace
                      ELSE {src[i + 1]},
              dot |-> FALSE, next |-> i + 2]
    ELSE IF src[i] = "." THEN [ok |-> TRUE, set |-> {}, dot |-> TRUE, next |-> i + 1]
    ELSE [ok |-> TRUE, set |-> {src[i]}, dot |-> FALSE, next |-> i + 1]

\* r with one more capture group / with item in front
AddGroup(r) == IF r.ok THEN [r EXCEPT !.groups = @ + 1] ELSE ParseError
AddItem(item, r) == IF r.ok THEN [r EXCEPT !.items = <<item>> \o @] ELSE ParseError

\* items of src[i..], with the count of capture groups opened; depth is the
\* number of groups open at i
RECURSIVE ParseItems(_, _, _)
RECURSIVE ParseAtom(_, _, _)
ParseItems(src, i, depth) ==
    IF i > Len(src) THEN
        IF depth = 0 THEN [ok |-> TRUE, items |-> <<>>, groups |-> 0] ELSE ParseError
    ELSE IF src[i] = "(" THEN AddGroup(ParseItems(src, i + 1, depth + 1))
    ELSE IF src[i] = ")" THEN
        IF depth = 0 THEN ParseError ELSE ParseItems(src, i + 1, depth - 1)
    ELSE IF src[i] \in Quantifiers THEN ParseError   \* nothing to repeat
    ELSE IF src[i] = "$" THEN AddItem(EndAnchor, ParseItems(src, i + 1, depth))
    ELSE ParseAtom(src, depth, AtomAt(src, i))

\* the atom just read, with the quantifier that follows it, and the rest
ParseAtom(src, depth, atom) ==
    IF ~atom.ok THEN ParseError
    ELSE IF atom.next <= Len(src) /\ src[atom.next] \in Quantifiers
    THEN AddItem(Item(atom.set, atom.dot, src[atom.next]),
                 ParseItems(src, atom.next + 1, depth))
    ELSE AddItem(Item(atom.set, atom.dot, "1"), ParseItems(src, atom.next, depth))

\* a leading inline flag group "(?x)"
HasFlagPrefix(src) == Len(src) >= 4 /\ src[1] = "(" /\ src[2] = "?" /\ src[4] = ")"

\* the flags a pattern text sets, and the text after them
RECURSIVE ParseFlags(_)
AddFlag(f, r) == [flags |-> r.flags \cup {f}, rest |-> r.rest]
ParseFlags(src) ==
    IF HasFlagPrefix(src) THEN AddFlag(src[3], ParseFlags(SubSeq(src, 5, Len(src))))
    ELSE [flags |-> {}, rest |-> src]

\* re.compile of one pattern text: [ok, items, groups, flags]
Compiled(flags, r) == [ok |-> r.ok, items |-> r.items, groups |-> r.groups, flags |-> flags]
CompileRest(f) == Compiled(f.flags, ParseItems(f.rest, 1, 0))
Compile(src) == CompileRest(ParseFlags(src))

\* the characters an item accepts
ItemSet(item, flags) ==
    IF item.dot
    THEN (IF "s" \in flags THEN Alphabet ELSE Alphabet \ {newline_char})
    ELSE item.set

\* the number of characters from offset pos on that are in cs
RECURSIVE Run(_, _, _)
Run(s, pos, cs) ==
    IF pos < Len(s) /\ s[pos + 1] \in cs THEN 1 + Run(s, pos + 1, cs) ELSE 0

\* the fewest and the most repetitions of an item, given the run of
\* characters it accepts
RepLo(q) == IF q \in {"1", "+"} THEN 1 ELSE 0
RepHi(q, run) == IF q \in {"1", "?"} THEN Min(run, 1) ELSE run

\* The end offset of the match of items[i..] anchored at pos, -1 when there is
\* none: the engine's backtracking search, greedy repetitions tried longest
\* first.
RECURSIVE MatchItems(_, _, _, _, _)
RECURSIVE MatchRep(_, _, _, _, _, _, _)
MatchItems(items, flags, i, s, pos) ==
    IF i > Len(items) THEN pos
    ELSE IF items[i].q = "$" THEN
        IF pos = Len(s) \/ (pos = Len(s) - 1 /\ s[pos + 1] = newline_char)
        THEN MatchItems(items, flags, i + 1, s, pos)
        ELSE -1
    ELSE MatchRep(items, flags, i, s, pos, RepLo(items[i].q),
                  RepHi(items[i].q, Run(s, pos, ItemSet(items[i], flags))))

\* item i repeated k times, then the rest; on failure one repetition fewer,
\* down to lo
MatchRep(items, flags, i, s, pos, lo, k) ==
    IF k < lo THEN -1
    ELSE IF MatchItems(items, flags, i + 1, s, pos + k) # -1
    THEN MatchItems(items, flags, i + 1, s, pos + k)
    ELSE MatchRep(items, flags, i, s, pos, lo, k - 1)

\* the lower and upper bound on the length of a match (sre_parse getwidth)
WidthPlus(q, r) ==
    [lo |-> r.lo + RepLo(q),
     hi |-> Min(MAXREPEAT, r.hi + (IF q \in {"1", "?"} THEN 1
                                   ELSE IF q = "$" THEN 0 ELSE MAXREPEAT))]

RECURSIVE WidthOf(_)
WidthOf(items) ==
    IF items = <<>> THEN [lo |-> 0, hi |-> 0]
    ELSE WidthPlus(Head(items).q, WidthOf(Tail(items)))

-----------------------------------------------------------------------------
(* Pattern and TokenDef (lark/common.py) *)

PatternStr(value, flags) == [type |-> "PatternStr", value |-> value, flags |-> flags]
PatternRE(value, flags) == [type |-> "PatternRE", value |-> value, flags |-> flags]
TokenDef(name, pattern, priority) == [name |-> name, pattern |-> pattern, priority |-> priority]

\* re.escape
RECURSIVE Escape(_)
Escape(s) ==
    IF s = <<>> THEN <<>>
    ELSE (IF Head(s) \in AlNum THEN <<Head(s)>> ELSE <<"\\", Head(s)>>) \o Escape(Tail(s))

\* Pattern._get_flags: one inline flag group in front of the text per flag
RECURSIVE GetFlags(_, _)
GetFlags(flags, text) ==
    IF flags = {} THEN text
    ELSE LET f == CHOOSE x \in flags : TRUE
         IN  <<"(", "?", f, ")">> \o GetFlags(flags \ {f}, text)

\* Pattern.to_regexp
to_regexp(p) ==
    IF p.type = "PatternStr" THEN GetFlags(p.flags, Escape(p.value))
    ELSE GetFlags(p.flags, p.value)

\* Pattern.min_width and max_width; only asked of patterns that compile
min_width(p) ==
    IF p.type = "PatternStr" THEN Len(p.value) ELSE WidthOf(Compile(to_regexp(p)).items).lo
max_width(p) ==
    IF p.type = "PatternStr" THEN Len(p.value) ELSE WidthOf(Compile(to_regexp(p)).items).hi

-----------------------------------------------------------------------------
(* Helpers of Lexer construction *)

\* _regexp_has_newline: a test on the pattern's text
_regexp_has_newline(r) ==
    \/ Contains(r, <<newline_char>>)
    \/ Contains(r, <<"\\", "n">>)
    \/ (Contains(r, <<"(", "?", "s", ")">>) /\ Contains(r, <<".">>))

RECURSIVE SelectSeqIdx(_, _)
\* the elements of s whose index is in keep, in order
SelectSeqIdx(s, keep) ==
    IF s = <<>> THEN <<>>
    ELSE SelectSeqIdx(SubSeq(s, 1, Len(s) - 1), keep)
         \o (IF Len(s) \in keep THEN <<s[Len(s)]>> ELSE <<>>)

\* [t.name for t in toks]
NameSeq(toks) == [i \in 1 .. Len(toks) |-> toks[i].name]
NamesOf(toks) == {toks[i].name : i \in 1 .. Len(toks)}

\* re.compile of u'|'.join(u'(?P<%s>%s)' % (t.name, t.pattern.to_regexp() + postfix))
\* over one batch of tokens; cs[i] is the batch's i-th alternative, compiled.
\* The engine parses first (an unparsable alternative or a group name used
\* twice is an re.error), then refuses more than MaxGroups capture groups
\* with an AssertionError.  Inline flags are global to the compiled pattern.
CompileAlts(batch, cs) ==
    IF \/ \E i \in 1 .. Len(batch) : ~cs[i].ok
       \/ \E i, j \in 1 .. Len(batch) : i < j /\ batch[i].name = batch[j].name
    THEN [status |-> "re.error"]
    ELSE IF SumSeq([i \in 1 .. Len(batch) |-> 1 + cs[i].groups]) > MaxGroups
    THEN [status |-> "AssertionError"]
    ELSE [status |-> "ok",
          mre |-> [alts   |-> [i \in 1 .. Len(batch) |->
                                  [name |-> batch[i].name, items |-> cs[i].items]],
                   flags  |-> UNION {cs[i].flags : i \in 1 .. Len(batch)},
                   groups |-> SumSeq([i \in 1 .. Len(batch) |-> 1 + cs[i].groups])]]

CompileBatch(batch, postfix) ==
    CompileAlts(batch, [i \in 1 .. Len(batch) |-> Compile(to_regexp(batch[i].pattern) \o postfix)])

\* mre.match(s, pos): the first alternative that matches at pos, as
\* [name (of m.lastindex), end (of m.group(0))]; end = -1 when none matches
NoMatch == [name |-> "", end |-> -1]

RECURSIVE MatchAlts(_, _, _, _, _)
MatchAlts(alts, flags, i, s, pos) ==
    IF i > Len(alts) THEN NoMatch
    ELSE IF MatchItems(alts[i].items, flags, 1, s, pos) # -1
    THEN [name |-> alts[i].name, end |-> MatchItems(alts[i].items, flags, 1, s, pos)]
    ELSE MatchAlts(alts, flags, i + 1, s, pos)

MreMatch(mre, s, pos) == MatchAlts(mre.alts, mre.flags, 1, s, pos)

\* _build_mres.  The loop compiles tokens[:max_size] and drops them from
\* tokens; an AssertionError makes it return the result of a fresh call, on
\* the tokens left at that point, with half the batch size.  With max_size 0
\* the empty batch compiles and tokens never shrinks: the call does not
\* return ("diverges").
RECURSIVE BuildMresLoop(_, _, _, _)
RECURSIVE BuildMresStep(_, _, _, _, _)
BuildMresLoop(tokens, max_size, postfix, mres) ==
    IF tokens = <<>> THEN [status |-> "ok", mres |-> mres]
    ELSE BuildMresStep(tokens, max_size, postfix, mres,
                       CompileBatch(SubSeq(tokens, 1, Min(max_size, Len(tokens))), postfix))

\* the body of the loop, c the outcome of re.compile
BuildMresStep(tokens, max_size, postfix, mres, c) ==
    IF c.status = "AssertionError"
    THEN BuildMresLoop(tokens, max_size \div 2, postfix, <<>>)
    ELSE IF c.status = "re.error" THEN [status |-> "re.error", mres |-> <<>>]
    ELSE IF max_size = 0 THEN [status |-> "diverges", mres |-> <<>>]
    ELSE BuildMresLoop(SubSeq(tokens, max_size + 1, Len(tokens)), max_size,
                       postfix, Append(mres, c.mre))

_build_mres(tokens, max_size, match_whole) ==
    BuildMresLoop(tokens, max_size, IF match_whole THEN <<"$">> ELSE <<>>, <<>>)

build_mres(tokens, match_whole) == _build_mres(tokens, Len(tokens), match_whole)

\* the first matcher of mres that matches at pos: [name, end], end = -1 if none
RECURSIVE MresMatch(_, _, _)
MresMatch(mres, s, pos) ==
    IF mres = <<>> THEN NoMatch
    ELSE IF MreMatch(Head(mres), s, pos).end # -1 THEN MreMatch(Head(mres), s, pos)
    ELSE MresMatch(Tail(mres), s, pos)

\* unless_callback(t), for the matchers _create_unless_callback compiled:
\* the token with the type it leaves with
Retyped(t, m) == IF m.end # -1 THEN [t EXCEPT !.type = m.name] ELSE t
unless_callback(mres, t) == Retyped(t, MresMatch(mres, t.value, 0))

-----------------------------------------------------------------------------
(* The ambiguity resolver *)

\* m = re.match(retok.pattern.to_regexp(), s); m and m.group(0) == s
FullMatch(c, s) == c.ok /\ MatchItems(c.items, c.flags, 1, s, 0) = Len(s)
AcceptsInFull(retok, s) == FullMatch(Compile(to_regexp(retok.pattern)), s)

\* the indices, in tokens, of the literals and of the regexps
StrIdx(tokens) == {i \in 1 .. Len(tokens) : tokens[i].pattern.type = "PatternStr"}
ReIdx(tokens) == {i \in 1 .. Len(tokens) : tokens[i].pattern.type = "PatternRE"}

\* the unless list of the regexp at index r
UnlessIdx(tokens, r) ==
    {i \in StrIdx(tokens) : AcceptsInFull(tokens[r], tokens[i].pattern.value)}

\* embedded_strs
EmbeddedIdx(tokens) ==
    {i \in StrIdx(tokens) :
        \E r \in ReIdx(tokens) :
            /\ i \in UnlessIdx(tokens, r)
            /\ tokens[i].pattern.flags \subseteq tokens[r].pattern.flags}

\* _create_unless_callback(strs): the matchers the callback closes over
_create_unless_callback(strs) == build_mres(strs, TRUE)

\* the callbacks of the regexps with a non-empty unless list, by index
UnlessCallbacks(tokens) ==
    [r \in {x \in ReIdx(tokens) : UnlessIdx(tokens, x) # {}} |->
        _create_unless_callback(SelectSeqIdx(tokens, UnlessIdx(tokens, r)))]

\* the greatest index in cbs of a regexp named n
LastNamed(tokens, cbs, n) ==
    CHOOSE r \in DOMAIN cbs :
        tokens[r].name = n /\ \A q \in DOMAIN cbs : tokens[q].name = n => q <= r

\* the least index in cbs of a callback that did not compile
FirstFailed(cbs) ==
    CHOOSE r \in DOMAIN cbs :
        cbs[r].status # "ok" /\ \A q \in DOMAIN cbs : cbs[q].status # "ok" => r <= q

\* _create_unless: [status, tokens, callback].  callback maps the name of a
\* regexp with a non-empty unless list to its callback's matchers; a later
\* regexp of the same name overwrites an earlier one.  A callback whose
\* matchers do not compile ends the construction.
CreateUnlessWith(tokens, cbs) ==
    IF \E r \in DOMAIN cbs : cbs[r].status # "ok"
    THEN [status |-> cbs[FirstFailed(cbs)].status, tokens |-> <<>>, callback |-> <<>>]
    ELSE [status |-> "ok",
          tokens |-> SelectSeqIdx(tokens, (1 .. Len(tokens)) \ EmbeddedIdx(tokens)),
          callback |-> [n \in {tokens[r].name : r \in DOMAIN cbs} |->
                           cbs[LastNamed(tokens, cbs, n)].mres]]

_create_unless(tokens) == CreateUnlessWith(tokens, UnlessCallbacks(tokens))

-----------------------------------------------------------------------------
(* Lexer *)

\* str order on the token names in use
NameOrder == <<"A", "ANY", "B", "BAD", "GA", "GB", "GN", "ID", "KW", "NL", "Z">>
NameRank(n) == CHOOSE i \in 1 .. Len(NameOrder) : NameOrder[i] = n

\* the sort key of Lexer.__init__
SortKey(x) ==
    <<-x.priority, -max_width(x.pattern), -Len(x.pattern.value), NameRank(x.name)>>

RECURSIVE TupleLess(_, _)
TupleLess(a, b) ==
    IF a = <<>> \/ b = <<>> THEN FALSE
    ELSE IF Head(a) # Head(b) THEN Head(a) < Head(b)
    ELSE TupleLess(Tail(a), Tail(b))

\* x placed after the elements of sorted whose key is not greater than its own
InsertSorted(sorted, x) ==
    SelectSeq(sorted, LAMBDA y : ~TupleLess(SortKey(x), SortKey(y)))
    \o <<x>> \o SelectSeq(sorted, LAMBDA y : TupleLess(SortKey(x), SortKey(y)))

\* a list left in the order it was given
Unsorted(tokens) == tokens

\* list.sort(key=...): stable
RECURSIVE SortTokens(_)
SortTokens(tokens) ==
    IF tokens = <<>> THEN <<>>
    ELSE InsertSorted(SortTokens(SubSeq(tokens, 1, Len(tokens) - 1)), tokens[Len(tokens)])

NoLexer(status) ==
    [status |-> status, tokens |-> <<>>, mres |-> <<>>, callback |-> <<>>,
     newline_types |-> <<>>, ignore_types |-> <<>>]

\* a sanitization loop without the test of min_width
UnsanitaryNoWidth(tokens) ==
    \E i \in 1 .. Len(tokens) : ~Compile(to_regexp(tokens[i].pattern)).ok

\* the sanitization loop: some token, in list order, does not compile or has
\* min_width 0
Unsanitary(tokens) ==
    \E i \in 1 .. Len(tokens) :
        \/ ~Compile(to_regexp(tokens[i].pattern)).ok
        \/ min_width(tokens[i].pattern) = 0

\* self.newline_types
NewlineTypes(tokens) ==
    NameSeq(SelectSeq(tokens, LAMBDA t : _regexp_has_newline(to_regexp(t.pattern))))

\* the end of Lexer.__init__: u is what _create_unless returned, m what
\* build_mres returned
LexerBuilt(nl, ignore, u, m) ==
    IF u.status # "ok" THEN NoLexer(u.status)
    ELSE IF m.status # "ok" THEN NoLexer(m.status)
    ELSE [status |-> "ok", tokens |-> u.tokens, mres |-> m.mres,
          callback |-> u.callback, newline_types |-> nl, ignore_types |-> ignore]

LexerResolved(nl, ignore, u) == LexerBuilt(nl, ignore, u, build_mres(u.tokens, FALSE))

\* Lexer.__init__(tokens, ignore): the object built, or how construction ended
LexerInit(tokens, ignore) ==
    IF Unsanitary(tokens) THEN NoLexer("LexError")
    ELSE IF ~({ignore[i] : i \in 1 .. Len(ignore)} \subseteq NamesOf(tokens))
    THEN NoLexer("AssertionError")
    ELSE LexerResolved(NewlineTypes(tokens), ignore, _create_unless(SortTokens(tokens)))

-----------------------------------------------------------------------------
(* Inputs: token definitions, token lists, ignore lists, streams *)

ID  == TokenDef("ID",  PatternRE(<<"[", "a", "b", "]", "+">>, {}), 0)
A   == TokenDef("A",   PatternStr(<<"a">>, {}), 0)
KW  == TokenDef("KW",  PatternStr(<<"a">>, {}), 1)
ANY == TokenDef("ANY", PatternRE(<<"[", "^", "b", "]", "+">>, {}), 0)
NL  == TokenDef("NL",  PatternRE(<<"\\", "n">>, {}), 0)
Z   == TokenDef("Z",   PatternRE(<<"a", "*">>, {}), 0)
BAD == TokenDef("BAD", PatternRE(<<"[", "a">>, {}), 0)
\* a literal that carries the name of ID
ID2 == TokenDef("ID",  PatternStr(<<"b">>, {}), 0)
GA  == TokenDef("GA",  PatternRE(<<"(", "a", ")", "b">>, {}), 0)
GB  == TokenDef("GB",  PatternRE(<<"(", "b", ")">>, {}), 0)
\* a regexp whose alternative alone has more than MaxGroups groups
GN  == TokenDef("GN",  PatternRE(<<"(", "(", "(", "a", ")", ")", ")">>, {}), 0)
\* a regexp as wide as GB, of shorter text and lesser name
B   == TokenDef("B",   PatternRE(<<"b">>, {}), 0)

Pool == {ID, A, KW, ANY, NL, Z, BAD, ID2, GA, GB, B, GN}
\* the tokens longer lists are drawn from: together they exceed MaxGroups
GroupPool == {ANY, ID, GA, GB}

\* the lists of n different elements of S
RECURSIVE ListsOf(_, _)
ListsOf(S, n) ==
    IF n = 0 THEN {<<>>}
    ELSE {Append(l, x) : l \in ListsOf(S, n - 1), x \in S} \ 
         {l \in {Append(l, x) : l \in ListsOf(S, n - 1), x \in S} :
             \E i, j \in 1 .. Len(l) : i < j /\ l[i] = l[j]}

TokenLists ==
    UNION {ListsOf(Pool, n) : n \in 0 .. MaxTokens}
    \cup UNION {ListsOf(GroupPool, n) : n \in 3 .. Cardinality(GroupPool)}

\* "U" names no token
IgnoreLists == {<<>>, <<"A">>, <<"NL">>, <<"U">>}

RECURSIVE StreamsOf(_)
StreamsOf(n) ==
    IF n = 0 THEN {<<>>}
    ELSE StreamsOf(n - 1) \cup {Append(s, c) : s \in {x \in StreamsOf(n - 1) : Len(x) = n - 1}, c \in Alphabet}

Streams == StreamsOf(MaxLen)

-----------------------------------------------------------------------------
(* State *)

VARIABLES
    kind,           \* the class constructed: "Lexer" or "ContextualLexer"
    tokens,         \* the constructor's arguments
    ignore,
    states,
    always_accept,
    built,          \* "no" before construction, then "ok" or the exception
    heap,           \* the Lexer objects constructed, in order of construction
    lexers,         \* ContextualLexer.lexers: state -> index in heap
    root_lexer,     \* ContextualLexer.root_lexer: index in heap
    parser_state,   \* ContextualLexer.parser_state
    stream,         \* the text of the session
    pc,             \* where the generator stands
    l_lexer,        \* _Lex.lexer: index in heap
    line_ctr,       \* the session's LineCounter
    pend,           \* the match the generator is suspended on: [value, type_]
    out,            \* the tokens yielded so far
    matches,        \* every match made so far: [pos, end, type_, yielded, lexer]
    err,            \* the UnexpectedInput raised: <<[line, column, context]>>
    other           \* a second session over the same Lexer, while the consumer
                    \* advances the first: the frame of its generator

ctorVars == <<kind, tokens, ignore, states, always_accept>>
objVars == <<built, heap, lexers, root_lexer>>
sessVars == <<stream, pc, l_lexer, line_ctr, pend, out, matches, err>>
vars == <<ctorVars, objVars, parser_state, sessVars, other>>

None == "None"

\* LineCounter.__init__
LineCounter == [char_pos |-> 0, line |-> 1, column |-> 0, line_start_pos |-> 0]

\* a feed that moves char_pos on by one character, whatever it is fed
FedByOne(lc, token, newlines) ==
    [char_pos |-> lc.char_pos + 1,
     line |-> lc.line + newlines,
     column |-> lc.char_pos + 1 - lc.line_start_pos,
     line_start_pos |-> lc.line_start_pos]

\* LineCounter.feed
Fed(lc, token, newlines) ==
    [char_pos |-> lc.char_pos + Len(token),
     line |-> lc.line + newlines,
     column |-> lc.char_pos + Len(token)
                - (IF newlines > 0 THEN lc.char_pos + RIndex(token, newline_char) + 1
                   ELSE lc.line_start_pos),
     line_start_pos |-> IF newlines > 0 THEN lc.char_pos + RIndex(token, newline_char) + 1
                        ELSE lc.line_start_pos]

feed(lc, token, test_newline) ==
    Fed(lc, token, IF test_newline THEN Count(token, newline_char) ELSE 0)

\* Token(type_, value, pos_in_stream, line, column)
Token(type_, value, pos, line, column) ==
    [type |-> type_, value |-> value, pos_in_stream |-> pos, line |-> line, column |-> column]

\* UnexpectedInput(seq, lex_pos, line, column)
UnexpectedInput(seq, lex_pos, line, column) ==
    [line |-> line, column |-> column,
     context |-> Slice(seq, lex_pos, Min(lex_pos + 5, Len(seq)))]

InSeq(x, s) == \E i \in 1 .. Len(s) : s[i] = x

\* the Lexer whose newline_types and ignore_types the session is given:
\* self in Lexer.lex, self.root_lexer in ContextualLexer.lex
TypesLexer == IF kind = "Lexer" THEN heap[1] ELSE heap[root_lexer]

-----------------------------------------------------------------------------
(* ContextualLexer construction *)

\* is_terminal (lark/common.py): terminal names are upper case, as every name
\* of the pool is
RuleNames == {"start"}
is_terminal(sym) == sym \notin RuleNames

SeqToSet(s) == {s[i] : i \in 1 .. Len(s)}

\* the token of that name in tokens_by_name
TokenByName(toks, n) == toks[CHOOSE i \in 1 .. Len(toks) : toks[i].name = n]

\* [tokens_by_name[n] for n in names]
TokensNamed(toks, names) == [i \in 1 .. Len(names) |-> TokenByName(toks, names[i])]

\* every name of the token list, whatever the state accepts
AnyAccepts(accepts, ign, aa) == {tokens[i].name : i \in 1 .. Len(tokens)}

\* the names the state's Lexer is built from: accepts | ignore | always_accept,
\* terminals only, without the end marker
EffectiveAccepts(accepts, ign, aa) ==
    {n \in accepts \cup SeqToSet(ign) \cup SeqToSet(aa) : is_terminal(n) /\ n # "$END"}

NoContextual(status) == [status |-> status, heap |-> <<>>, lexers |-> <<>>, root_lexer |-> 0]

\* f with x mapped to v
Put(f, x, v) == [y \in DOMAIN f \cup {x} |-> IF y = x THEN v ELSE f[y]]

\* The loop over states.items(), from entry i on.  acc is [heap, byKey,
\* lexers]: the Lexers built, lexer_by_tokens (frozenset(accepts) -> index in
\* heap) and self.lexers.  order is the order in which the sets of names are
\* iterated.
RECURSIVE StatesLoop(_, _, _, _, _, _, _)
RECURSIVE StatesStep(_, _, _, _, _, _, _, _)
StatesLoop(toks, sts, ign, aa, order, i, acc) ==
    IF i > Len(sts) THEN [status |-> "ok", acc |-> acc]
    ELSE IF sts[i].accepts \in DOMAIN acc.byKey
    THEN StatesLoop(toks, sts, ign, aa, order, i + 1,
                    [acc EXCEPT !.lexers = Put(@, sts[i].state, acc.byKey[sts[i].accepts])])
    ELSE IF ~(EffectiveAccepts(sts[i].accepts, ign, aa) \subseteq NamesOf(toks))
    THEN [status |-> "KeyError", acc |-> acc]
    ELSE StatesStep(toks, sts, ign, aa, order, i, acc,
             LexerInit(TokensNamed(toks,
                              SelectSeq(order, LAMBDA n :
                                  n \in EffectiveAccepts(sts[i].accepts, ign, aa))),
                       ign))

\* the except branch, lexer the Lexer it built
StatesStep(toks, sts, ign, aa, order, i, acc, lexer) ==
    IF lexer.status # "ok" THEN [status |-> lexer.status, acc |-> acc]
    ELSE StatesLoop(toks, sts, ign, aa, order, i + 1,
             [heap   |-> Append(acc.heap, lexer),
              byKey  |-> Put(acc.byKey, sts[i].accepts, Len(acc.heap) + 1),
              lexers |-> Put(acc.lexers, sts[i].state, Len(acc.heap) + 1)])

\* the end of ContextualLexer.__init__: r is what the loop left, root the
\* Lexer over all tokens
ContextualBuilt(r, root) ==
    IF r.status # "ok" THEN NoContextual(r.status)
    ELSE IF root.status # "ok" THEN NoContextual(root.status)
    ELSE [status |-> "ok", heap |-> Append(r.acc.heap, root),
          lexers |-> r.acc.lexers, root_lexer |-> Len(r.acc.heap) + 1]

\* ContextualLexer.__init__(tokens, states, ignore, always_accept)
ContextualInit(toks, sts, ign, aa, order) ==
    IF \E i, j \in 1 .. Len(toks) : i < j /\ toks[i].name = toks[j].name
    THEN NoContextual("AssertionError")
    ELSE ContextualBuilt(StatesLoop(toks, sts, ign, aa, order, 1,
                                    [heap |-> <<>>, byKey |-> <<>>, lexers |-> <<>>]),
                         LexerInit(toks, ign))

\* the orders in which a set of names can be iterated
Orders(S) == ListsOf(S, Cardinality(S))

-----------------------------------------------------------------------------
(* Operations *)

NoSession ==
    /\ stream = <<>> /\ pc = "idle" /\ l_lexer = 0 /\ line_ctr = LineCounter
    /\ pend = <<>> /\ out = <<>> /\ matches = <<>> /\ err = <<>>

\* the frame of a generator of lex: its arguments, its position, its locals
\* and what it has produced
Frame ==
    [stream |-> stream, pc |-> pc, l_lexer |-> l_lexer, line_ctr |-> line_ctr,
     pend |-> pend, out |-> out, matches |-> matches, err |-> err]

\* the frame no call of lex has made yet
NoFrame ==
    [stream |-> <<>>, pc |-> "idle", l_lexer |-> 0, line_ctr |-> LineCounter,
     pend |-> <<>>, out |-> <<>>, matches |-> <<>>, err |-> <<>>]

\* Lexer(tokens, ignore)
LexerMade(lexer) ==
    /\ built' = lexer.status
    /\ heap' = IF lexer.status = "ok" THEN <<lexer>> ELSE <<>>

NewLexer ==
    /\ kind = "Lexer" /\ built = "no"
    /\ LexerMade(LexerInit(tokens, ignore))
    /\ UNCHANGED <<ctorVars, lexers, root_lexer, parser_state, sessVars, other>>

\* ContextualLexer(tokens, states, ignore, always_accept)
ContextualMade(c) ==
    /\ built' = c.status
    /\ heap' = c.heap
    /\ lexers' = c.lexers
    /\ root_lexer' = c.root_lexer

NewContextualLexer ==
    /\ kind = "ContextualLexer" /\ built = "no"
    /\ \E order \in Orders(NamesOf(tokens)) :
         ContextualMade(ContextualInit(tokens, states, ignore, always_accept, order))
    /\ parser_state' = None
    /\ UNCHANGED <<ctorVars, sessVars, other>>

\* set_parser_state(state), by the consumer: while the generator is not
\* running.  The consumer is the parser the states map was made for: the
\* states it sets are keys of lexers (any other makes line 203 or 206 raise
\* KeyError).
set_parser_state ==
    /\ kind = "ContextualLexer" /\ built = "ok"
    /\ pc \in {"idle", "created", "yielded"}
    /\ \E s \in DOMAIN lexers :
         /\ s # parser_state
         /\ parser_state' = s
    /\ UNCHANGED <<ctorVars, objVars, sessVars, other>>

\* lex(stream): the generator is created, its body has not started.
\* Lexer.lex wraps self in _Lex now; ContextualLexer.lex does so when its
\* body starts.  The consumer of a ContextualLexer has set a state.
lex ==
    /\ built = "ok" /\ pc = "idle"
    /\ kind = "ContextualLexer" => parser_state \in DOMAIN lexers
    /\ \E s \in Streams : stream' = s
    /\ pc' = "created"
    /\ l_lexer' = IF kind = "Lexer" THEN 1 ELSE l_lexer
    /\ UNCHANGED <<ctorVars, objVars, parser_state, line_ctr, pend, out, matches, err, other>>

\* a ContextualLexer.lex that reads parser_state only when its body starts
ActiveLexerStale ==
    IF kind = "ContextualLexer" /\ pc = "created" THEN lexers[parser_state] ELSE l_lexer

\* The consumer asks for the next token.  The first time the body starts with
\* a new LineCounter; later the generator resumes after its yield and feeds
\* the LineCounter the text it yielded.  ContextualLexer.lex reads
\* parser_state into _Lex.lexer before it resumes the inner generator.
ActiveLexer == IF kind = "ContextualLexer" THEN lexers[parser_state] ELSE l_lexer

Request ==
    /\ pc \in {"created", "yielded"}
    /\ l_lexer' = ActiveLexer
    /\ line_ctr' = IF pc = "created" THEN LineCounter
                   ELSE feed(line_ctr, pend.value, InSeq(pend.type_, TypesLexer.newline_types))
    /\ pend' = <<>>
    /\ pc' = "matching"
    /\ UNCHANGED <<ctorVars, objVars, parser_state, stream, out, matches, err, other>>

\* a match m of lexer's matchers at char_pos: the token is yielded, or fed to
\* the LineCounter when its type is ignored
Matched(lexer, m, value) ==
    /\ matches' = Append(matches,
           [pos |-> line_ctr.char_pos, end |-> m.end, type_ |-> m.name,
            yielded |-> ~InSeq(m.name, TypesLexer.ignore_types), lexer |-> l_lexer])
    /\ IF ~InSeq(m.name, TypesLexer.ignore_types)
       THEN /\ out' = Append(out,
                   IF m.name \in DOMAIN lexer.callback
                   THEN unless_callback(lexer.callback[m.name],
                            Token(m.name, value, line_ctr.char_pos, line_ctr.line, line_ctr.column))
                   ELSE Token(m.name, value, line_ctr.char_pos, line_ctr.line, line_ctr.column))
            /\ pend' = [value |-> value, type_ |-> m.name]
            /\ pc' = "yielded"
            /\ UNCHANGED line_ctr
       ELSE /\ line_ctr' = feed(line_ctr, value, InSeq(m.name, TypesLexer.newline_types))
            /\ UNCHANGED <<out, pend, pc>>
    /\ UNCHANGED err

\* the else branch of the for loop: no matcher matched
Unmatched ==
    /\ IF line_ctr.char_pos < Len(stream)
       THEN /\ pc' = "UnexpectedInput"
            /\ err' = <<UnexpectedInput(stream, line_ctr.char_pos,
                                        line_ctr.line, line_ctr.column)>>
       ELSE /\ pc' = "done"
            /\ UNCHANGED err
    /\ UNCHANGED <<line_ctr, out, pend, matches>>

MatchOutcome(lexer, m) ==
    IF m.end # -1 THEN Matched(lexer, m, Slice(stream, line_ctr.char_pos, m.end))
    ELSE Unmatched

\* One pass of `while True`: the matchers of self.lexer are tried at char_pos.
Match ==
    /\ pc = "matching"
    /\ MatchOutcome(heap[l_lexer], MresMatch(heap[l_lexer].mres, stream, line_ctr.char_pos))
    /\ UNCHANGED <<ctorVars, objVars, parser_state, stream, l_lexer, other>>

\* one LineCounter for every session of the Lexer
SharedCounter(frame) == line_ctr

\* The LineCounter a generator of lex works with: the one its own frame holds
\* (line_ctr is a local of _Lex.lex, made by each call).
SessionCounter(frame) == frame.line_ctr

\* The consumer holds two generators of Lexer.lex over one Lexer and turns
\* from the one it was advancing to the other: the frames change places.
Switch ==
    /\ kind = "Lexer" /\ built = "ok"
    /\ other' = Frame
    /\ stream' = other.stream /\ pc' = other.pc /\ l_lexer' = other.l_lexer
    /\ line_ctr' = SessionCounter(other)
    /\ pend' = other.pend /\ out' = other.out /\ matches' = other.matches
    /\ err' = other.err
    /\ UNCHANGED <<ctorVars, objVars, parser_state>>

\* lex(stream) on a stream of at most MaxShared characters
lexShort == lex /\ Len(stream') <= MaxShared

-----------------------------------------------------------------------------
(* Specifications *)

\* the states maps drawn for a ContextualLexer over tokens: two states
StateMaps(toks) ==
    {<<[state |-> "S1", accepts |-> a1], [state |-> "S2", accepts |-> a2]>> :
        a1 \in SUBSET NamesOf(toks), a2 \in SUBSET NamesOf(toks)}

CtxTokenLists == {<<A, GB>>, <<ID, A>>, <<ID, ID2>>, <<A, Z>>}
CtxIgnoreLists == {<<>>, <<"A">>, <<"U">>}
\* "GB" is a token of the first list only
AlwaysAcceptLists == {<<>>, <<"GB">>}

Init ==
    /\ \/ /\ kind = "Lexer"
          /\ tokens \in TokenLists
          /\ ignore \in IgnoreLists
          /\ states = <<>>
          /\ always_accept = <<>>
       \/ /\ kind = "ContextualLexer"
          /\ tokens \in CtxTokenLists
          /\ ignore \in CtxIgnoreLists
          /\ states \in StateMaps(tokens)
          /\ always_accept \in AlwaysAcceptLists
    /\ built = "no" /\ heap = <<>> /\ lexers = <<>> /\ root_lexer = 0
    /\ parser_state = None
    /\ NoSession
    /\ other = NoFrame

Next ==
    \/ NewLexer
    \/ NewContextualLexer
    \/ set_parser_state
    \/ lex
    \/ Request
    \/ Match

Spec == Init /\ [][Next]_vars

\* the generator runs when it is asked to, and the consumer keeps asking
FairSpec == Spec /\ WF_vars(Match) /\ WF_vars(Request)

\* Two sessions of Lexer.lex over one Lexer, advanced in any interleaving
SharedTokenLists == {<<ID, A>>, <<A, NL>>, <<ANY, GB>>}
SharedIgnoreLists == {<<>>, <<"A">>}

SharedInit ==
    /\ kind = "Lexer"
    /\ tokens \in SharedTokenLists
    /\ ignore \in SharedIgnoreLists
    /\ states = <<>> /\ always_accept = <<>>
    /\ built = "no" /\ heap = <<>> /\ lexers = <<>> /\ root_lexer = 0
    /\ parser_state = None
    /\ NoSession
    /\ other = NoFrame

SharedNext ==
    \/ NewLexer
    \/ lexShort
    \/ Request
    \/ Match
    \/ Switch

SharedSpec == SharedInit /\ [][SharedNext]_vars

-----------------------------------------------------------------------------
(* Vocabulary of the properties *)

Terminal == pc \in {"done", "UnexpectedInput"}
InSession == pc \in {"created", "matching", "yielded"}

\* the matches that were yielded; the k-th made the k-th token of out
YieldedMatches == SelectSeq(matches, LAMBDA m : m.yielded)

\* line and column of offset p of the stream, counted on the stream itself
LineAt(p) == 1 + Count(Slice(stream, 0, p), newline_char)
ColumnAt(p) ==
    IF Count(Slice(stream, 0, p), newline_char) = 0 THEN p
    ELSE p - (RIndex(Slice(stream, 0, p), newline_char) + 1)

\* the end of token definition d's own match at offset p of s, -1 if none
OwnMatch(d, s, p) ==
    IF Compile(to_regexp(d.pattern)).ok
    THEN MatchItems(Compile(to_regexp(d.pattern)).items, d.pattern.flags, 1, s, p)
    ELSE -1

\* the definitions of the constructor's list that match at offset p
MatchingAt(p) == {i \in 1 .. Len(tokens) : OwnMatch(tokens[i], stream, p) # -1}

-----------------------------------------------------------------------------
(* C1: a state set between two tokens decides the very next match *)

\* the step out of "matching" is the one the matchers of the Lexer at heap
\* index ix make at char_pos
StepUses(ix) ==
    IF MresMatch(heap[ix].mres, stream, line_ctr.char_pos).end # -1
    THEN /\ Len(matches') = Len(matches) + 1
         /\ matches'[Len(matches')].lexer = ix
         /\ matches'[Len(matches')].type_ = MresMatch(heap[ix].mres, stream, line_ctr.char_pos).name
         /\ matches'[Len(matches')].end = MresMatch(heap[ix].mres, stream, line_ctr.char_pos).end
    ELSE matches' = matches /\ pc' \in {"done", "UnexpectedInput"}

\* C1: in ContextualLexer.lex every match attempt is made with exactly the
\* matchers of lexers[parser_state], parser_state being what the consumer
\* last set before it asked for the token; setting the state changes nothing
\* of the tokens already yielded.
C1_StateSwitch ==
    [][/\ (kind = "ContextualLexer" /\ pc = "matching") => StepUses(lexers[parser_state])
       /\ parser_state' # parser_state => (out' = out /\ matches' = matches)]_vars

\* a token was yielded in one state, the consumer switched, and the next match
\* is text the first state's Lexer does not match there
C1_Witness ==
    /\ kind = "ContextualLexer"
    /\ \E j \in 2 .. Len(matches) :
         /\ matches[j - 1].yielded
         /\ matches[j].lexer # matches[j - 1].lexer
         /\ matches[j].yielded
         /\ MresMatch(heap[matches[j - 1].lexer].mres, stream, matches[j].pos).end = -1

-----------------------------------------------------------------------------
(* C2: priority decides between two definitions that match at one offset *)

\* the greatest priority among the definitions matching at p
TopPriority(p) ==
    CHOOSE q \in {tokens[i].priority : i \in MatchingAt(p)} :
        \A i \in MatchingAt(p) : tokens[i].priority <= q

\* C2: whenever definitions of different priority match at the offset of a
\* yielded token, the token is the match of one of highest priority: its type
\* and its own matched text.
C2_PriorityWins ==
    kind = "Lexer" =>
        \A k \in 1 .. Len(out) :
            (\E i, j \in MatchingAt(out[k].pos_in_stream) :
                tokens[i].priority > tokens[j].priority)
            => \E i \in MatchingAt(out[k].pos_in_stream) :
                   /\ tokens[i].priority = TopPriority(out[k].pos_in_stream)
                   /\ out[k].type = tokens[i].name
                   /\ out[k].value = Slice(stream, out[k].pos_in_stream,
                                          OwnMatch(tokens[i], stream, out[k].pos_in_stream))

-----------------------------------------------------------------------------
(* C3: a regexp's match is retyped to a literal exactly on the literal's text *)

\* the pairs (regexp r, literal l) of the list, of equal priority, r accepting
\* l's value in full
SubsumedPairs ==
    {<<r, l>> \in ReIdx(tokens) \X StrIdx(tokens) :
        /\ tokens[r].priority = tokens[l].priority
        /\ AcceptsInFull(tokens[r], tokens[l].pattern.value)}

\* C3: a yielded match of such a regexp R has type L when its text is L's
\* value, and type R with the whole matched text when it is any other text.
C3_LiteralDisambiguation ==
    kind = "Lexer" =>
        \A k \in 1 .. Len(out) : \A pr \in SubsumedPairs :
            YieldedMatches[k].type_ = tokens[pr[1]].name =>
                /\ out[k].value = Slice(stream, YieldedMatches[k].pos, YieldedMatches[k].end)
                /\ IF out[k].value = tokens[pr[2]].pattern.value
                   THEN out[k].type = tokens[pr[2]].name
                   ELSE out[k].type = tokens[pr[1]].name

-----------------------------------------------------------------------------
(* C4: ignored types are never yielded *)

\* C4: no yielded token has a type of the ignore list.
C4_IgnoredNeverYielded ==
    \A k \in 1 .. Len(out) : ~InSeq(out[k].type, ignore)

-----------------------------------------------------------------------------
(* C5: line and column of a token are those of its offset *)

\* C5: every yielded token's line is 1 plus the newlines of the stream before
\* its offset, its column the distance from the last of them.
C5_LineColumn ==
    \A k \in 1 .. Len(out) :
        /\ out[k].line = LineAt(out[k].pos_in_stream)
        /\ out[k].column = ColumnAt(out[k].pos_in_stream)

-----------------------------------------------------------------------------
(* C6: when UnexpectedInput is raised, and what it carries *)

NoMatcherMatches == MresMatch(heap[l_lexer].mres, stream, line_ctr.char_pos).end = -1

\* C6: a match attempt raises UnexpectedInput exactly when no matcher of the
\* active Lexer matches and the offset is before the end of the input, the
\* error carrying the line and column of that offset; when none matches at the
\* end of the input the sequence ends.
C6_UnexpectedInput ==
    [][pc = "matching" =>
        /\ (pc' = "UnexpectedInput") <=> (NoMatcherMatches /\ line_ctr.char_pos < Len(stream))
        /\ pc' = "UnexpectedInput" =>
               /\ err'[1].line = LineAt(line_ctr.char_pos)
               /\ err'[1].column = ColumnAt(line_ctr.char_pos)
        /\ (NoMatcherMatches /\ line_ctr.char_pos = Len(stream)) => pc' = "done"]_vars

-----------------------------------------------------------------------------
(* C7: progress and termination *)

\* C7: every match is at least one character long and starts where the one
\* before it ended, so beyond it; and a session whose consumer keeps asking
\* ends, exhausted or with UnexpectedInput.
C7_Progress ==
    /\ [](\A i \in 1 .. Len(matches) :
            /\ matches[i].end > matches[i].pos
            /\ i > 1 => matches[i].pos > matches[i - 1].pos)
    /\ (InSession ~> Terminal)

\* a session that ended after an ignored and a yielded match
C7_Witness ==
    /\ Terminal
    /\ \E i, j \in 1 .. Len(matches) : matches[i].yielded /\ ~matches[j].yielded

-----------------------------------------------------------------------------
(* C8: build_mres keeps every token, in order, within the ceiling *)

\* the names of the alternatives of the matchers, in matcher-list order
AltNames(mres) == Concat([i \in 1 .. Len(mres) |-> NameSeq(mres[i].alts)])
\* and what they match
AltItems(mres) ==
    Concat([i \in 1 .. Len(mres) |-> [j \in 1 .. Len(mres[i].alts) |-> mres[i].alts[j].items]])

\* C8: the matchers build_mres returned for a Lexer hold, concatenated, exactly
\* the Lexer's token list in its order, and none exceeds the ceiling.
C8_MresCoverTokens ==
    (kind = "Lexer" /\ built = "ok") =>
        /\ AltNames(heap[1].mres) = NameSeq(heap[1].tokens)
        /\ AltItems(heap[1].mres)
           = [i \in 1 .. Len(heap[1].tokens) |-> Compile(to_regexp(heap[1].tokens[i].pattern)).items]
        /\ \A i \in 1 .. Len(heap[1].mres) : heap[1].mres[i].groups <= MaxGroups

-----------------------------------------------------------------------------
(* C9: several matchers lex as one matcher over the same tokens would *)

\* the token list as one compiled pattern, the ceiling set aside
SingleMatcher(toks) ==
    [alts   |-> [i \in 1 .. Len(toks) |->
                    [name |-> toks[i].name, items |-> Compile(to_regexp(toks[i].pattern)).items]],
     flags  |-> UNION {Compile(to_regexp(toks[i].pattern)).flags : i \in 1 .. Len(toks)},
     groups |-> SumSeq([i \in 1 .. Len(toks) |-> 1 + Compile(to_regexp(toks[i].pattern)).groups])]

\* A whole session of Lexer.lex over s with the matchers mres in place of
\* lexer.mres, from LineCounter lc on with toks yielded so far: what it yields
\* and how it ends.
RECURSIVE RunLex(_, _, _, _, _)
RECURSIVE RunLexOn(_, _, _, _, _, _)
RunLex(lexer, mres, s, lc, toks) ==
    RunLexOn(lexer, mres, s, lc, toks, MresMatch(mres, s, lc.char_pos))

RunLexOn(lexer, mres, s, lc, toks, m) ==
    IF m.end = -1 THEN
        [out |-> toks,
         pc  |-> IF lc.char_pos < Len(s) THEN "UnexpectedInput" ELSE "done",
         err |-> IF lc.char_pos < Len(s)
                 THEN <<UnexpectedInput(s, lc.char_pos, lc.line, lc.column)>> ELSE <<>>]
    ELSE RunLex(lexer, mres, s,
                feed(lc, Slice(s, lc.char_pos, m.end), InSeq(m.name, lexer.newline_types)),
                IF InSeq(m.name, lexer.ignore_types) THEN toks
                ELSE Append(toks,
                        IF m.name \in DOMAIN lexer.callback
                        THEN unless_callback(lexer.callback[m.name],
                                 Token(m.name, Slice(s, lc.char_pos, m.end),
                                       lc.char_pos, lc.line, lc.column))
                        ELSE Token(m.name, Slice(s, lc.char_pos, m.end),
                                   lc.char_pos, lc.line, lc.column)))

\* C9: a session over a Lexer whose tokens were compiled into several matchers
\* yields the tokens, and ends the way, a session over the same ordered tokens
\* compiled into one matcher does.
C9_SplitLexesAsOne ==
    (kind = "Lexer" /\ Terminal /\ Len(heap[1].mres) > 1) =>
        [out |-> out, pc |-> pc, err |-> err]
        = RunLex(heap[1], <<SingleMatcher(heap[1].tokens)>>, stream, LineCounter, <<>>)

-----------------------------------------------------------------------------
(* C10: what makes construction fail *)

\* the constructor's arguments carry one of the listed defects
Defective ==
    \/ \E i \in 1 .. Len(tokens) :
          \/ ~Compile(to_regexp(tokens[i].pattern)).ok
          \/ min_width(tokens[i].pattern) = 0
    \/ \E i \in 1 .. Len(ignore) : ignore[i] \notin NamesOf(tokens)
    \/ \E i, j \in 1 .. Len(tokens) : i < j /\ tokens[i].name = tokens[j].name

\* C10: construction from defective arguments never yields an object.
C10_ConstructionFails == Defective => built # "ok"

-----------------------------------------------------------------------------
(* C11: sessions that share a Lexer do not disturb one another *)

\* what a session of Lexer.lex over s yields, and how it ends, run alone
Alone(s) == RunLex(heap[1], heap[1].mres, s, LineCounter, <<>>)

IsPrefix(a, b) == Len(a) <= Len(b) /\ SubSeq(b, 1, Len(a)) = a

\* the session of frame f has yielded, so far, what it yields alone, and has
\* ended as it ends alone
AsAloneWith(f, alone) ==
    /\ IsPrefix(f.out, alone.out)
    /\ f.pc = "yielded" => f.out # <<>>
    /\ f.pc \in {"done", "UnexpectedInput"} =>
           (f.out = alone.out /\ f.pc = alone.pc /\ f.err = alone.err)

AsAlone(f) == f.pc # "idle" => AsAloneWith(f, Alone(f.stream))

\* C11: no step of a session changes a constructed Lexer, and each of two
\* sessions over one Lexer, advanced in any interleaving, yields the tokens
\* and ends the way it does when it runs alone.
C11_SharedLexer ==
    /\ [][built = "ok" => heap' = heap]_vars
    /\ []((kind = "Lexer" /\ built = "ok") => (AsAlone(Frame) /\ AsAlone(other)))

\* both sessions are suspended on a token, on different streams, at different
\* offsets
C11_Witness ==
    /\ kind = "Lexer" /\ pc = "yielded" /\ other.pc = "yielded"
    /\ stream # other.stream
    /\ line_ctr.char_pos # other.line_ctr.char_pos
    /\ Len(out) = 2 /\ Len(other.out) = 1

-----------------------------------------------------------------------------
(* C12: the order of a Lexer's token list *)

\* x may stand right before y in the claimed order: higher priority; then
\* larger max_width; then, between two literals, the longer value; then the
\* lesser name.  Between a literal and a regexp of equal priority and
\* max_width either order is taken as claimed.
OrderedAsClaimed(x, y) ==
    \/ x.priority > y.priority
    \/ /\ x.priority = y.priority
       /\ max_width(x.pattern) > max_width(y.pattern)
    \/ /\ x.priority = y.priority
       /\ max_width(x.pattern) = max_width(y.pattern)
       /\ IF x.pattern.type = "PatternStr" /\ y.pattern.type = "PatternStr"
          THEN \/ Len(x.pattern.value) > Len(y.pattern.value)
               \/ /\ Len(x.pattern.value) = Len(y.pattern.value)
                  /\ NameRank(x.name) <= NameRank(y.name)
          ELSE IF x.pattern.type = "PatternRE" /\ y.pattern.type = "PatternRE"
          THEN NameRank(x.name) <= NameRank(y.name)
          ELSE TRUE

\* C12: in the token list of every constructed Lexer each token and the one
\* after it stand in the claimed order.
C12_TokenOrder ==
    \A h \in 1 .. Len(heap) : \A i \in 1 .. (Len(heap[h].tokens) - 1) :
        OrderedAsClaimed(heap[h].tokens[i], heap[h].tokens[i + 1])

-----------------------------------------------------------------------------
(* C13: the order the definitions are handed over in does not show *)

\* the same definitions in every list order
Perms(toks) == ListsOf(SeqToSet(toks), Len(toks))

Triples(toks) ==
    [k \in 1 .. Len(toks) |->
        <<toks[k].type, toks[k].value, toks[k].pos_in_stream>>]

\* the triples a session over stream yields with the Lexer built from toks
TriplesOf(lexer) ==
    IF lexer.status = "ok"
    THEN Triples(RunLex(lexer, lexer.mres, stream, LineCounter, <<>>).out)
    ELSE <<>>

\* lexer is constructed or refused as the Lexer of the session was, and yields
\* the triples the session yielded
SameOutcome(lexer) ==
    /\ lexer.status = built
    /\ Terminal => TriplesOf(lexer) = Triples(out)

\* two Lexers that differ in nothing lex reads
SameLexer(a, b) ==
    /\ a.tokens = b.tokens /\ a.mres = b.mres /\ a.callback = b.callback
    /\ SeqToSet(a.newline_types) = SeqToSet(b.newline_types)
    /\ SeqToSet(a.ignore_types) = SeqToSet(b.ignore_types)

\* the ContextualLexer c is the one constructed
SameContextual(c) ==
    /\ c.status = built
    /\ built = "ok" =>
          /\ c.lexers = lexers /\ c.root_lexer = root_lexer
          /\ Len(c.heap) = Len(heap)
          /\ \A h \in 1 .. Len(heap) : SameLexer(c.heap[h], heap[h])

\* C13: a Lexer constructed from the same definitions in any other list order
\* is constructed or refused alike, and yields on the session's stream the
\* triples (type, value, offset) the session yielded; a ContextualLexer
\* constructed from them in any list order, its states' token lists drawn in
\* any iteration order, holds for every state a Lexer with the same token
\* list, matchers and callbacks.
C13_OrderIndependent ==
    /\ (kind = "Lexer" /\ built # "no" /\ (pc = "idle" \/ Terminal)) =>
          \A perm \in Perms(tokens) : SameOutcome(LexerInit(perm, ignore))
    /\ (kind = "ContextualLexer" /\ built # "no" /\ pc = "idle") =>
          \A perm \in Perms(tokens) : \A order \in Orders(NamesOf(tokens)) :
              SameContextual(ContextualInit(perm, states, ignore, always_accept, order))

\* a session ended with tokens yielded, over a Lexer whose definitions were
\* not handed over in their sorted order
C13_Witness ==
    /\ kind = "Lexer" /\ Terminal /\ Len(out) >= 2
    /\ Len(heap[1].tokens) = Len(tokens)
    /\ heap[1].tokens # tokens

-----------------------------------------------------------------------------
(* C14: build_mres returns as few matchers as the ceiling allows *)

\* the capture groups the alternative of token t costs: its named group and
\* the groups of its pattern
GroupCost(t) == 1 + Compile(to_regexp(t.pattern)).groups

\* the slices the cut positions cuts make of 1 .. n, as <<first, last>> pairs:
\* a slice ends at every cut and at n
SlicesOf(n, cuts) ==
    {<<a, b>> \in (1 .. n) \X (1 .. n) :
        /\ a <= b
        /\ b \in cuts \cup {n}
        /\ (a = 1 \/ (a - 1) \in cuts)
        /\ \A c \in cuts : ~(a <= c /\ c < b)}

\* the numbers of slices of the coverings of toks by consecutive slices, each
\* within the ceiling
CoveringSizes(toks) ==
    {Cardinality(cuts) + 1 : cuts \in
        {c \in SUBSET (1 .. (Len(toks) - 1)) :
            \A sl \in SlicesOf(Len(toks), c) :
                SumSeq([k \in 1 .. (sl[2] - sl[1] + 1) |-> GroupCost(toks[sl[1] + k - 1])])
                    <= MaxGroups}}

\* C14: no covering of the Lexer's token list by consecutive slices within the
\* ceiling has fewer slices than build_mres returned matchers.
C14_MinimalMatchers ==
    (kind = "Lexer" /\ built = "ok" /\ heap[1].tokens # <<>>) =>
        \A k \in CoveringSizes(heap[1].tokens) : k >= Len(heap[1].mres)

-----------------------------------------------------------------------------
(* C15: matcher compilation terminates *)

\* C15: no construction is left in a call of _build_mres that does not
\* return.
C15_BuildTerminates == built # "diverges"

-----------------------------------------------------------------------------
(* C16: removing an embedded literal does not change what is lexed *)

\* the session's Lexer with the matchers m, compiled from the whole sorted
\* list, in place of its own; its callbacks stay installed
KeepingWith(lexer, m) == [lexer EXCEPT !.tokens = SortTokens(tokens), !.mres = m.mres]

\* the session's outcome is the outcome of a session over the Lexer that
\* keeps every literal, when that one compiles
SameAsKeeping(m) ==
    m.status = "ok" =>
        RunLex(KeepingWith(heap[1], m), m.mres, stream, LineCounter, <<>>).out = out

\* C16: a session over a Lexer from whose token list _create_unless removed a
\* literal yields the tokens a session yields over the Lexer that keeps the
\* literal as an alternative of its own, in sorted order.
C16_RemovalUnseen ==
    (kind = "Lexer" /\ Terminal /\ EmbeddedIdx(SortTokens(tokens)) # {}) =>
        SameAsKeeping(build_mres(SortTokens(tokens), FALSE))

-----------------------------------------------------------------------------
(* C17: the ignored types of a Lexer are types of its own tokens *)

\* C17: every name in the ignore_types of a constructed Lexer is the name of
\* a token of its token list.
C17_IgnoreTypesOwn ==
    \A h \in 1 .. Len(heap) :
        SeqToSet(heap[h].ignore_types) \subseteq NamesOf(heap[h].tokens)

-----------------------------------------------------------------------------
(* C18: states share a Lexer exactly when their effective sets are equal *)

\* the accepts the states map declares for state st
DeclaredAccepts(st) == (CHOOSE e \in SeqToSet(states) : e.state = st).accepts

\* declared accepts united with ignore and always_accept
EffectiveSet(st) == DeclaredAccepts(st) \cup SeqToSet(ignore) \cup SeqToSet(always_accept)

\* C18: two states of a constructed ContextualLexer map to one Lexer instance
\* exactly when their effective accepted sets are equal.
C18_SharedByEffectiveSet ==
    (kind = "ContextualLexer" /\ built = "ok") =>
        \A s1, s2 \in DOMAIN lexers :
            (EffectiveSet(s1) = EffectiveSet(s2)) <=> (lexers[s1] = lexers[s2])

-----------------------------------------------------------------------------
(* C19: the matches tile the input *)

\* C19: the first match starts at offset 0 and each later one where the one
\* before it ended; the k-th yielded token is the k-th yielded match, its
\* value the slice of the stream from its pos_in_stream to the end of the
\* match; and when the sequence ends without error the matches end at the end
\* of the stream.
C19_Tiling ==
    /\ \A i \in 1 .. Len(matches) :
          matches[i].pos = (IF i = 1 THEN 0 ELSE matches[i - 1].end)
    /\ Len(out) = Len(YieldedMatches)
    /\ \A k \in 1 .. Len(out) :
          /\ out[k].pos_in_stream = YieldedMatches[k].pos
          /\ out[k].pos_in_stream + Len(out[k].value) = YieldedMatches[k].end
          /\ out[k].value = Slice(stream, out[k].pos_in_stream,
                                  out[k].pos_in_stream + Len(out[k].value))
    /\ pc = "done" =>
          (IF matches = <<>> THEN 0 ELSE matches[Len(matches)].end) = Len(stream)

\* a session ended without error after a yielded match of two characters and
\* an ignored match
C19_Witness ==
    /\ pc = "done"
    /\ \E i, j \in 1 .. Len(matches) :
          /\ matches[i].yielded /\ matches[i].end = matches[i].pos + 2
          /\ ~matches[j].yielded

-----------------------------------------------------------------------------
(* C20: a ContextualLexer yields only types its current state accepts *)

\* C20: the token a match attempt of ContextualLexer.lex yields, after the
\* callback, has a type of the effective accepted set, the end marker left
\* out, of the parser state current at that attempt.
C20_YieldedTypeAccepted ==
    [][(kind = "ContextualLexer" /\ pc = "matching" /\ Len(out') = Len(out) + 1) =>
          out'[Len(out')].type \in (EffectiveSet(parser_state) \ {"$END"})]_vars

\* a token the callback retyped was yielded, of a type another state does not
\* accept
C20_Witness ==
    /\ kind = "ContextualLexer"
    /\ \E k \in 1 .. Len(out) :
          /\ out[k].type # YieldedMatches[k].type_
          /\ \E st \in DOMAIN lexers : out[k].type \notin EffectiveSet(st)

=============================================================================
